---- MODULE Spec2Model ----
(***************************************************************************)
(* A model of GPSFilter (src/GPSFilter.cpp): the 2-D constant-velocity     *)
(* Kalman filter wrapper of ikalman.  The filter's doubles are modelled    *)
(* as exact rationals over arbitrary-precision naturals, because the       *)
(* filter mixes 1e12 (initial covariance) with 1e-6 (noise) and TLC's      *)
(* integers are 32 bits wide.                                              *)
(***************************************************************************)
EXTENDS Integers, Sequences, FiniteSets, Bags, TLC

(***************************************************************************)
(* Arbitrary-precision naturals: little-endian sequences of limbs in       *)
(* 0..Base-1 without most-significant zero limbs; zero is << >>.  TLC's    *)
(* evaluation stack is shallow, so the operations work on whole columns    *)
(* of limbs at once and resolve the carries by looking down the columns,   *)
(* instead of recursing limb by limb.                                      *)
(***************************************************************************)
Base == 10 * 10 * 10

Max2(x, y) == IF x >= y THEN x ELSE y
Min2(x, y) == IF x <= y THEN x ELSE y
AbsI(x) == IF x < 0 THEN -x ELSE x
SgnI(x) == IF x < 0 THEN -1 ELSE IF x = 0 THEN 0 ELSE 1

Limb(a, i) == IF 1 <= i /\ i <= Len(a) THEN a[i] ELSE 0

\* A function over 1..n as a tuple, its elements evaluated once.
Tup(f) == f \o << >>

\* e, with v evaluated first.  TLC evaluates an operator's argument where it
\* is first used, deep inside the callee; a value handed down a chain of
\* operators is therefore computed before the call.
Strict(v, e) == IF v = v THEN e ELSE e

\* the least d with 2^d >= n, for n up to 2^20
Log2(n) == CHOOSE d \in 0..20: 2^d >= n /\ (d = 0 \/ 2^(d - 1) < n)

\* s without its most significant zero limbs
Trim(s) ==
  IF s = << >> \/ s[Len(s)] # 0 THEN s
  ELSE IF \A i \in 1..Len(s): s[i] = 0 THEN << >>
  ELSE LET n == Len(s)
           t == CHOOSE t \in 1..n: /\ s[n + 1 - t] # 0
                                    /\ \A u \in 1..(t - 1): s[n + 1 - u] = 0
       IN SubSeq(s, 1, n + 1 - t)

NatOfInt(k) ==
  Trim(<<k % Base, (k \div Base) % Base, (k \div (Base * Base)) % Base,
         k \div (Base * Base * Base)>>)

\* The distance from column k of c down to the nearest lower column that is
\* not v; k if there is none.
Below(c, k, v) ==
  CHOOSE t \in 1..k: /\ (t = k \/ c[k - t] # v)
                      /\ \A u \in 1..(t - 1): c[k - u] = v

\* The number with the columns c (c[k] of weight Base^(k-1)), each in
\* 0 .. 2 * Base - 2: a column takes a carry when the nearest lower column
\* that is not Base - 1 holds Base or more.
Carried(c) ==
  Trim(Tup([k \in 1..(Len(c) + 1) |->
         LET t == Below(c, k, Base - 1)
         IN (Limb(c, k) + (IF t < k /\ c[k - t] >= Base THEN 1 ELSE 0))
              % Base]))

\* The number with the columns d, each in 1 - Base .. Base - 1, for a number
\* that is not negative: a column lends when the nearest lower column that
\* is not 0 is negative.
Borrowed(d) ==
  Trim(Tup([k \in 1..Len(d) |->
         LET t == Below(d, k, 0)
         IN (d[k] - (IF t < k /\ d[k - t] < 0 THEN 1 ELSE 0)) % Base]))

\* The same number with each column's multiples of Base moved one column up.
Spill(c) ==
  Tup([k \in 1..(Len(c) + 1) |->
        (Limb(c, k) % Base) + (Limb(c, k - 1) \div Base)])

NatAdd(a, b) ==
  IF a = << >> THEN b
  ELSE IF b = << >> THEN a
  ELSE Carried(Tup([k \in 1..Max2(Len(a), Len(b)) |-> Limb(a, k) + Limb(b, k)]))

\* a - b for a >= b
NatSub(a, b) ==
  IF b = << >> THEN a
  ELSE Borrowed(Tup([k \in 1..Len(a) |-> a[k] - Limb(b, k)]))

NatCmp(a, b) ==
  IF Len(a) # Len(b) THEN (IF Len(a) < Len(b) THEN -1 ELSE 1)
  ELSE IF a = b THEN 0
  ELSE LET n == Len(a)
           t == CHOOSE t \in 1..n: /\ a[n + 1 - t] # b[n + 1 - t]
                                    /\ \A u \in 1..(t - 1): a[n + 1 - u] = b[n + 1 - u]
       IN IF a[n + 1 - t] < b[n + 1 - t] THEN -1 ELSE 1

\* The k-th column of a * b: the sum of the a[i] * b[k + 1 - i], taken as the
\* size of the bag that holds a[i] * b[k + 1 - i] + 1 copies of each i.
Column(a, b, k) ==
  LET lo == Max2(1, k + 1 - Len(b))
      hi == Min2(Len(a), k)
  IN BagCardinality([i \in lo..hi |-> a[i] * b[k + 1 - i] + 1]) - (hi - lo + 1)

\* for operands of fewer than Base limbs
NatMul(a, b) ==
  IF a = << >> \/ b = << >> THEN << >>
  ELSE Carried(Spill(Spill(
         Tup([k \in 1..(Len(a) + Len(b) - 1) |-> Column(a, b, k)]))))

\* a * k for one limb k
NatMulSmall(a, k) == IF k = 0 THEN << >> ELSE NatMul(a, <<k>>)

\* a * Base^n
NatShift(a, n) == IF a = << >> THEN << >> ELSE [i \in 1..n |-> 0] \o a

\* a - q * Base^j * b for a limb q, where that is not negative
NatSubMul(a, b, q, j) ==
  Borrowed(Spill(Tup([k \in 1..Len(a) |-> a[k] - q * Limb(b, k - j)])))

\* One step of the long division of r by b, for r >= b > 0: a limb q >= 1 and
\* a shift j with q * Base^j * b <= r, estimated from the leading limbs (b's
\* rounded up), so that a few steps bring r below Base^j * b.
QuotientStep(r, b) ==
  LET la == Len(r)
      lb == Len(b)
      Dt == b[lb] * Base + Limb(b, lb - 1) + (IF lb > 2 THEN 1 ELSE 0)
      R2 == r[la] * Base + Limb(r, la - 1)
  IN IF R2 >= Dt THEN [q |-> R2 \div Dt, j |-> la - lb]
     ELSE IF la = lb THEN [q |-> 1, j |-> 0]
     ELSE [q |-> (R2 * Base + Limb(r, la - 2)) \div Dt, j |-> la - lb - 1]

\* the quotient and the remainder s = [q, r] after the step e = [q, j]
DivTake(s, b, e) ==
  [q |-> NatAdd(s.q, NatShift(<<e.q>>, e.j)),
   r |-> NatSubMul(s.r, b, e.q, e.j)]

DivStep(s, b) == DivTake(s, b, QuotientStep(s.r, b))

RECURSIVE DivLoop(_, _, _)
\* up to 2^d steps of the long division by b, from the quotient and the
\* remainder s = [q, r]
DivLoop(s, b, d) ==
  IF NatCmp(s.r, b) < 0 THEN s
  ELSE IF d = 0 THEN DivStep(s, b)
  ELSE DivLoop(DivLoop(s, b, d - 1), b, d - 1)

RECURSIVE DivRun(_, _)
DivRun(s, b) ==
  IF NatCmp(s.r, b) < 0 THEN s
  ELSE DivRun(DivLoop(s, b, Log2(2 * (Len(s.r) - Len(b) + 1))), b)

\* [q, r] with a = q * b + r and r < b, for b > 0
NatDivMod(a, b) == DivRun([q |-> << >>, r |-> a], b)

\* One step of Euclid's algorithm on the naturals es, from s = [a, b, i]: a
\* and b (a >= b) have the greatest common divisor of es[1..i-1]; a step
\* reduces a by a multiple of b or, b being 0, takes es[i] in.
GcdTake(s, e) ==
  IF NatCmp(s.a, e) >= 0 THEN [a |-> s.a, b |-> e, i |-> s.i + 1]
  ELSE [a |-> e, b |-> s.a, i |-> s.i + 1]

GcdKeep(s, r) ==
  IF NatCmp(r, s.b) < 0 THEN [a |-> s.b, b |-> r, i |-> s.i]
  ELSE [a |-> r, b |-> s.b, i |-> s.i]

GcdReduce(s, e) == GcdKeep(s, NatSubMul(s.a, s.b, e.q, e.j))

GcdStep(s, es) ==
  IF s.b = << >> THEN GcdTake(s, es[s.i])
  ELSE GcdReduce(s, QuotientStep(s.a, s.b))

GcdDone(s, es) == s.b = << >> /\ (s.i > Len(es) \/ s.a = <<1>>)

RECURSIVE GcdLoop(_, _, _)
\* up to 2^d steps
GcdLoop(s, es, d) ==
  IF GcdDone(s, es) THEN s
  ELSE IF d = 0 THEN GcdStep(s, es)
  ELSE GcdLoop(GcdLoop(s, es, d - 1), es, d - 1)

RECURSIVE GcdRun(_, _, _)
GcdRun(s, es, d) ==
  IF GcdDone(s, es) THEN s ELSE GcdRun(GcdLoop(s, es, d), es, d)

\* the greatest common divisor of the naturals es, 0 if all of them are 0
NatGcdAll(es) ==
  IF es = << >> THEN << >>
  ELSE GcdRun([a |-> es[1], b |-> << >>, i |-> 2], es,
              Log2(2 * BagCardinality([i \in DOMAIN es |-> Len(es[i]) + 1]))).a

NatGcd(a, b) == NatGcdAll(<<a, b>>)

(***************************************************************************)
(* Signed integers [s: sign, m: magnitude] and rationals [n, d] in lowest  *)
(* terms with d > 0: the values of the program's doubles.                  *)
(***************************************************************************)
NatOne == <<1>>

IntZero == [s |-> 0, m |-> << >>]
IntOfInt(k) == [s |-> SgnI(k), m |-> NatOfInt(AbsI(k))]
IntOfNat(n) == [s |-> IF n = << >> THEN 0 ELSE 1, m |-> n]
IntNeg(a) == [s |-> -a.s, m |-> a.m]

IntAdd(a, b) ==
  IF a.s = 0 THEN b
  ELSE IF b.s = 0 THEN a
  ELSE IF a.s = b.s THEN [s |-> a.s, m |-> NatAdd(a.m, b.m)]
  ELSE LET c == NatCmp(a.m, b.m)
       IN IF c = 0 THEN IntZero
          ELSE IF c > 0 THEN [s |-> a.s, m |-> NatSub(a.m, b.m)]
          ELSE [s |-> b.s, m |-> NatSub(b.m, a.m)]

IntSub(a, b) == IntAdd(a, IntNeg(b))

IntMul(a, b) ==
  IF a.s = 0 \/ b.s = 0 THEN IntZero
  ELSE [s |-> a.s * b.s, m |-> NatMul(a.m, b.m)]

IntMulNat(a, n) ==
  IF a.s = 0 \/ n = << >> THEN IntZero
  ELSE IF n = NatOne THEN a
  ELSE [s |-> a.s, m |-> NatMul(a.m, n)]

\* a / g for g dividing a
IntDivNat(a, g) ==
  IF a.s = 0 \/ g = NatOne THEN a
  ELSE [s |-> a.s, m |-> NatDivMod(a.m, g).q]

RECURSIVE IntSum(_)
\* the sum of a sequence of integers, by halves
IntSum(s) ==
  IF s = << >> THEN IntZero
  ELSE IF Len(s) = 1 THEN s[1]
  ELSE IntAdd(IntSum(SubSeq(s, 1, Len(s) \div 2)),
              IntSum(SubSeq(s, Len(s) \div 2 + 1, Len(s))))

\* n / d for g dividing both
Reduced(n, d, g) ==
  IF g = NatOne THEN [n |-> n, d |-> d]
  ELSE [n |-> IntDivNat(n, g), d |-> NatDivMod(d, g).q]

\* n / d in lowest terms, for d > 0
Rat(n, d) ==
  IF n.s = 0 THEN [n |-> IntZero, d |-> NatOne]
  ELSE Reduced(n, d, NatGcd(n.m, d))

\* k / d for machine integers k and d > 0
RatOfInts(k, d) == Rat(IntOfInt(k), NatOfInt(d))
RatOfInt(k) == [n |-> IntOfInt(k), d |-> NatOne]
RatZero == RatOfInt(0)

RatAdd(a, b) ==
  IF a.d = b.d THEN Rat(IntAdd(a.n, b.n), a.d)
  ELSE Rat(IntAdd(IntMulNat(a.n, b.d), IntMulNat(b.n, a.d)), NatMul(a.d, b.d))
RatNeg(a) == [n |-> IntNeg(a.n), d |-> a.d]
RatSub(a, b) == RatAdd(a, RatNeg(b))
RatMul(a, b) == Rat(IntMul(a.n, b.n), NatMul(a.d, b.d))
\* a / b for b # 0
RatDiv(a, b) ==
  Rat([s |-> a.n.s * b.n.s, m |-> NatMul(a.n.m, b.d)], NatMul(a.d, b.n.m))
RatSgn(a) == a.n.s
\* the sign of a - b
RatCmp(a, b) ==
  IntSub(IntMulNat(a.n, b.d), IntMulNat(b.n, a.d)).s
RatLess(a, b) == RatCmp(a, b) < 0
RatLeq(a, b) == RatCmp(a, b) <= 0

(***************************************************************************)
(* Doubles whose rounding matters are rationals rounded as IEEE 754        *)
(* binary64 rounds them: to the nearest value with a 53-bit significand,   *)
(* ties to the even one.  The exponent range is left unbounded.            *)
(***************************************************************************)
NatSquare(h) == NatMul(h, h)

RECURSIVE Pow2(_)
Pow2(k) ==
  IF k < 30 THEN NatOfInt(2^k)
  ELSE NatMulSmall(NatSquare(Pow2(k \div 2)), 2^(k % 2))

RECURSIVE ScaleUp(_, _, _, _)
\* the least k in a..b with n * 2^k >= lo, given that b is such a k
ScaleUp(n, lo, a, b) ==
  IF a = b THEN a
  ELSE LET mid == (a + b) \div 2
       IN IF NatCmp(NatMul(n, Pow2(mid)), lo) >= 0
          THEN ScaleUp(n, lo, a, mid)
          ELSE ScaleUp(n, lo, mid + 1, b)

\* the double nearest to the rational x, for 2^-200 < |x| < 2^53
\* x rounded to a multiple of 2^-k: qr is |x| * 2^k as a quotient and a
\* remainder over x.d, c the remainder against one half
RoundHalf(x, k, qr, c) ==
  Rat([s |-> x.n.s,
       m |-> IF c > 0 \/ (c = 0 /\ Limb(qr.q, 1) % 2 = 1)
             THEN NatAdd(qr.q, NatOne) ELSE qr.q],
      Pow2(k))

RoundQuotient(x, k, qr) ==
  RoundHalf(x, k, qr, NatCmp(NatMulSmall(qr.r, 2), x.d))

RoundScaled(x, k) ==
  RoundQuotient(x, k, NatDivMod(NatMul(x.n.m, Pow2(k)), x.d))

RoundToDouble(x) ==
  IF RatSgn(x) = 0 THEN RatZero
  ELSE RoundScaled(x, ScaleUp(x.n.m, NatMul(x.d, Pow2(52)), 0, 255))

(***************************************************************************)
(* Matrix (spec 4.1): a dense rows x cols matrix of doubles, held as       *)
(* integer numerators data[i][j] over one common denominator den, in       *)
(* lowest terms where it is stored.  Rows and columns are numbered from    *)
(* 1; At takes the program's 0-based indices.                              *)
(***************************************************************************)
Rows(M) == Len(M.data)
Cols(M) == Len(M.data[1])
At(M, i, j) == Rat(M.data[i + 1][j + 1], M.den)

\* The same matrix in lowest terms: no common factor among the numerators and
\* the denominator, so that equal matrices are equal values.
\* M for g dividing its numerators and its denominator
MatOver(M, g) ==
  IF g = NatOne THEN M
  ELSE [data |-> Tup([i \in 1..Rows(M) |->
                   Tup([j \in 1..Cols(M) |-> IntDivNat(M.data[i][j], g)])]),
        den |-> NatDivMod(M.den, g).q]

MatNorm(M) ==
  MatOver(M, NatGcdAll(<<M.den>> \o
               [k \in 1..(Rows(M) * Cols(M)) |->
                  M.data[((k - 1) \div Cols(M)) + 1]
                        [((k - 1) % Cols(M)) + 1].m]))

\* create(rows, cols): zero-initialised
create(r, c) ==
  [data |-> Tup([i \in 1..r |-> Tup([j \in 1..c |-> IntZero])]), den |-> NatOne]

\* identity(n), as set_identity_matrix(m) writes it over m
set_identity_matrix(m) ==
  [data |-> Tup([i \in 1..Rows(m) |->
              Tup([j \in 1..Cols(m) |->
                IF i = j THEN IntOfInt(1) ELSE IntZero])]),
   den |-> NatOne]

\* the least common multiple of x and y, both > 0
NatLcm(x, y) ==
  IF x = y \/ y = NatOne THEN x
  ELSE IF x = NatOne THEN y
  ELSE NatMul(x, NatDivMod(y, NatGcd(x, y)).q)

RECURSIVE LcmFold(_, _, _)
\* the least common denominator of the rationals vs[lo..hi], by halves
LcmFold(vs, lo, hi) ==
  IF lo = hi THEN vs[lo].d
  ELSE NatLcm(LcmFold(vs, lo, (lo + hi) \div 2),
              LcmFold(vs, (lo + hi) \div 2 + 1, hi))

\* set(values...): bulk-assign all entries of m in row-major order
\* v as a numerator over den, a multiple of v's denominator
Over(v, den) ==
  IF v.d = den THEN v.n ELSE IntMulNat(v.n, NatDivMod(den, v.d).q)

\* m with the entries values over their common denominator den
set_over(m, values, den) ==
  [data |-> Tup([i \in 1..Rows(m) |->
              Tup([j \in 1..Cols(m) |->
                Over(values[(i - 1) * Cols(m) + j], den)])]),
   den |-> den]

set_matrix(m, values) == set_over(m, values, LcmFold(values, 1, Len(values)))

\* m with the entry at the program's indices [i][j] overwritten by v
set_entry(m, i, j, v) ==
  MatNorm([data |-> Tup([r \in 1..Rows(m) |->
                     Tup([c \in 1..Cols(m) |->
                       IF r = i + 1 /\ c = j + 1 THEN IntMulNat(v.n, m.den)
                       ELSE IntMulNat(m.data[r][c], v.d)])]),
           den |-> NatMul(m.den, v.d)])

add_matrix(a, b) ==
  IF a.den = b.den
  THEN [data |-> Tup([i \in 1..Rows(a) |->
                   Tup([j \in 1..Cols(a) |->
                     IntAdd(a.data[i][j], b.data[i][j])])]),
        den |-> a.den]
  ELSE [data |-> Tup([i \in 1..Rows(a) |->
                   Tup([j \in 1..Cols(a) |->
                     IntAdd(IntMulNat(a.data[i][j], b.den),
                            IntMulNat(b.data[i][j], a.den))])]),
        den |-> NatMul(a.den, b.den)]

\* the matrix -a
negate_matrix(a) ==
  [data |-> Tup([i \in 1..Rows(a) |->
              Tup([j \in 1..Cols(a) |-> IntNeg(a.data[i][j])])]),
   den |-> a.den]

subtract_matrix(a, b) == add_matrix(a, negate_matrix(b))

multiply_matrix(a, b) ==
  [data |-> Tup([i \in 1..Rows(a) |->
              Tup([j \in 1..Cols(b) |->
                IntSum(Tup([k \in 1..Cols(a) |->
                         IntMul(a.data[i][k], b.data[k][j])]))])]),
   den |-> NatMul(a.den, b.den)]

transpose_matrix(a) ==
  [data |-> Tup([i \in 1..Cols(a) |->
              Tup([j \in 1..Rows(a) |-> a.data[j][i]])]),
   den |-> a.den]

\* scale(factor), for a rational factor
scale_matrix(m, factor) ==
  [data |-> Tup([i \in 1..Rows(m) |->
              Tup([j \in 1..Cols(m) |-> IntMul(m.data[i][j], factor.n)])]),
   den |-> NatMul(m.den, factor.d)]

(***************************************************************************)
(* LinearAlgebra (spec 4.2): invert, for the 2 x 2 innovation covariance   *)
(* of this filter, in closed form (adjugate over determinant).             *)
(***************************************************************************)
Det2(m) ==
  IntSub(IntMul(m.data[1][1], m.data[2][2]), IntMul(m.data[1][2], m.data[2][1]))

Singular(m) == Det2(m).s = 0

\* d * x for x an integer and d the determinant; only d's sign is used
SignedBy(d, x) == IF d.s < 0 THEN IntNeg(x) ELSE x

\* inverse of m = data/den: den * adj(data) / det(data); for det # 0
adjugate_over(m, d) ==
  [data |-> << <<SignedBy(d, IntMulNat(m.data[2][2], m.den)),
                 SignedBy(d, IntMulNat(IntNeg(m.data[1][2]), m.den))>>,
               <<SignedBy(d, IntMulNat(IntNeg(m.data[2][1]), m.den)),
                 SignedBy(d, IntMulNat(m.data[1][1], m.den))>> >>,
   den |-> d.m]

invert(m) == adjugate_over(m, Det2(m))

(***************************************************************************)
(* KalmanFilter (spec 4.3).  A filter is a record of its matrices; the     *)
(* operations take and return an object [f, log], log being the sequence   *)
(* of steps carried out so far, each with the values it worked from.       *)
(***************************************************************************)
alloc_filter(state_dimension, observation_dimension) ==
  [state_transition |-> create(state_dimension, state_dimension),
   observation_model |-> create(observation_dimension, state_dimension),
   process_noise_covariance |-> create(state_dimension, state_dimension),
   observation_noise_covariance |->
     create(observation_dimension, observation_dimension),
   observation |-> create(observation_dimension, 1),
   state_estimate |-> create(state_dimension, 1),
   estimate_covariance |-> create(state_dimension, state_dimension)]

Event(op, arg) == [op |-> op, arg |-> arg]

\* predict(): state_estimate <- F x; estimate_covariance <- F P F^T + Q
predict(this) ==
  [f |-> [this.f EXCEPT
            !.state_estimate =
              MatNorm(multiply_matrix(this.f.state_transition, @)),
            !.estimate_covariance =
              MatNorm(add_matrix(
                multiply_matrix(
                  multiply_matrix(this.f.state_transition, @),
                  transpose_matrix(this.f.state_transition)),
                this.f.process_noise_covariance))],
   log |-> Append(this.log,
                  Event("predict", <<At(this.f.state_transition, 0, 2),
                                     At(this.f.state_transition, 1, 3)>>))]

\* (C + C^T) / 2
symmetrize(C) ==
  scale_matrix(add_matrix(C, transpose_matrix(C)), RatOfInts(1, 2))

\* y = z - H x
innovation(f) ==
  subtract_matrix(f.observation,
                  multiply_matrix(f.observation_model, f.state_estimate))

\* S = H P H^T + R
innovation_covariance(f) ==
  add_matrix(
    multiply_matrix(multiply_matrix(f.observation_model, f.estimate_covariance),
                    transpose_matrix(f.observation_model)),
    f.observation_noise_covariance)

\* K = P H^T S^-1
optimal_gain(f, S) ==
  MatNorm(multiply_matrix(
            multiply_matrix(f.estimate_covariance,
                            transpose_matrix(f.observation_model)),
            invert(S)))

\* x + K y
corrected_estimate(f, K) ==
  MatNorm(add_matrix(f.state_estimate, multiply_matrix(K, innovation(f))))

\* (I - K H) P, symmetrized
corrected_covariance(f, K) ==
  MatNorm(symmetrize(
    multiply_matrix(
      subtract_matrix(set_identity_matrix(f.estimate_covariance),
                      multiply_matrix(K, f.observation_model)),
      f.estimate_covariance)))

\* the correction, from the predicted filter p.f and the gain K
correct(p, K) ==
  [f |-> [p.f EXCEPT !.state_estimate = corrected_estimate(p.f, K),
                     !.estimate_covariance = corrected_covariance(p.f, K)],
   log |-> Append(p.log, Event("correct", <<At(p.f.observation, 0, 0),
                                            At(p.f.observation, 1, 0)>>)),
   err |-> "none"]

\* the steps of update() after predict(): p is the object predict() left, S
\* the innovation covariance.  A singular S raises SingularMatrixError.
update_predicted(p, S) ==
  IF Singular(S)
  THEN [f |-> p.f, log |-> p.log, err |-> "SingularMatrixError"]
  ELSE correct(p, Strict(S, optimal_gain(p.f, S)))

\* the outcome r of an update from the object this: with the state estimate
\* before and after the prediction
update_outcome(this, p, r) ==
  [f |-> r.f, log |-> r.log, err |-> r.err,
   prior |-> this.f.state_estimate, predicted |-> p.f.state_estimate]

update_from(this, p) ==
  update_outcome(this, p,
                 Strict(p, update_predicted(p, innovation_covariance(p.f))))

\* update(): predict(), then the correction from the current observation.
\* The result carries the error raised, if any, and the state estimate before
\* and after the prediction.
update(this) == update_from(this, predict(this))

(***************************************************************************)
(* GPSFilter (src/GPSFilter.cpp)                                           *)
(***************************************************************************)
unit_scaler == RatOfInts(1, 1000)

\* A faulty set_seconds_per_timestep: it writes the x coupling only.
set_seconds_per_timestep_one_axis(this, seconds_per_timestep) ==
  [f |-> [this.f EXCEPT !.state_transition =
            set_entry(@, 0, 2, RatMul(unit_scaler, seconds_per_timestep))],
   log |-> Append(this.log, Event("set_seconds_per_timestep",
                                  <<seconds_per_timestep>>))]

set_seconds_per_timestep(this, seconds_per_timestep) ==
  [f |-> [this.f EXCEPT !.state_transition =
            set_entry(
              set_entry(@, 0, 2, RatMul(unit_scaler, seconds_per_timestep)),
              1, 3, RatMul(unit_scaler, seconds_per_timestep))],
   log |-> Append(this.log, Event("set_seconds_per_timestep",
                                  <<seconds_per_timestep>>))]

\* Faulty constants: a negative noise base, a starting variance of a billion.
pos_negative == RatOfInts(-1, 1000000)
trillion_short == RatMul(RatOfInt(1000), RatOfInt(1000000))

pos == RatOfInts(1, 1000000)
trillion == RatMul(RatOfInt(1000000), RatOfInt(1000000))

\* The constructor's statements after set_seconds_per_timestep(1.0), from the
\* object t that call leaves: p is the local pos, n is pos * noise, O and I
\* are 0.0 and 1.0.
set_matrices(t, p, n, O, I) ==
  [f |-> [t.f EXCEPT
            !.observation_model = set_matrix(@, <<I, O, O, O,
                                                  O, I, O, O>>),
            !.process_noise_covariance = set_matrix(@, <<p, O, O, O,
                                                         O, p, O, O,
                                                         O, O, I, O,
                                                         O, O, O, I>>),
            !.observation_noise_covariance = set_matrix(@, <<n, O,
                                                             O, n>>),
            !.state_estimate = set_matrix(@, <<O, O, O, O>>),
            !.estimate_covariance =
              MatNorm(scale_matrix(set_identity_matrix(@), trillion))],
   log |-> t.log]

\* The constructor, for an integer noise: the object [f, log] it leaves.
GPSFilter(noise) ==
  set_matrices(
    set_seconds_per_timestep(
      [f |-> [alloc_filter(4, 2) EXCEPT
                !.state_transition = set_identity_matrix(@)],
       log |-> << >>],
      RatOfInt(1)),
    pos, RatMul(pos, RatOfInt(noise)), RatZero, RatOfInt(1))

\* set_matrix(f.observation, ...) on the object t, for the observation z
set_observation(t, z) ==
  [f |-> [t.f EXCEPT !.observation = set_matrix(@, z)],
   log |-> Append(t.log, Event("set_matrix", z))]

\* A faulty update_velocity2d: the time step is set after the update.
update_velocity2d_late_time_step(this, lat, lon, seconds_since_last_timestep) ==
  LET u == update(set_observation(this, <<RatMul(lat, RatOfInt(1000)),
                                          RatMul(lon, RatOfInt(1000))>>))
      t == set_seconds_per_timestep([f |-> u.f, log |-> u.log],
                                    seconds_since_last_timestep)
  IN [u EXCEPT !.f = t.f, !.log = t.log]

\* A faulty update_velocity2d: the update also rescales the observation noise.
update_velocity2d_rescaled_noise(this, lat, lon, seconds_since_last_timestep) ==
  [update(set_observation(
            set_seconds_per_timestep(this, seconds_since_last_timestep),
            <<RatMul(lat, RatOfInt(1000)), RatMul(lon, RatOfInt(1000))>>))
     EXCEPT !.f.observation_noise_covariance =
              MatNorm(scale_matrix(add_matrix(@, set_identity_matrix(@)),
                                   RatOfInt(2)))]

\* update_velocity2d(lat, lon, seconds_since_last_timestep), for rational
\* arguments
update_velocity2d(this, lat, lon, seconds_since_last_timestep) ==
  update(set_observation(
           set_seconds_per_timestep(this, seconds_since_last_timestep),
           <<RatMul(lat, RatOfInt(1000)), RatMul(lon, RatOfInt(1000))>>))

\* get_lat_long: <<lat, lon>>
get_lat_long(f) ==
  <<RatDiv(At(f.state_estimate, 0, 0), RatOfInt(1000)),
    RatDiv(At(f.state_estimate, 1, 0), RatOfInt(1000))>>

\* A faulty get_velocity: it descales by a thousand only.
get_velocity_thousandths(f) ==
  <<RatDiv(At(f.state_estimate, 2, 0), RatOfInt(1000)),
    RatDiv(At(f.state_estimate, 3, 0), RatOfInt(1000))>>

\* get_velocity: <<delta_lat, delta_lon>>
get_velocity(f) ==
  <<RatDiv(At(f.state_estimate, 2, 0), RatOfInt(1000 * 1000)),
    RatDiv(At(f.state_estimate, 3, 0), RatOfInt(1000 * 1000))>>

(***************************************************************************)
(* The program as a state machine.                                         *)
(*   f, log      the GPSFilter object: its filter and the steps it ran     *)
(*   noise_arg   the noise the object was constructed with                 *)
(*   calls       the arguments of the update_velocity2d calls made so far  *)
(*   ret         the outcome of the latest call                            *)
(*   raw, bearing    get_bearing: the bearing computed, the value returned *)
(*   file, offset, lat_lon, rets   read_lat_long: the stream, the read     *)
(*               position, the caller's two doubles, the values returned   *)
(***************************************************************************)
VARIABLES f, log, noise_arg, calls, ret, raw, bearing, file, offset, lat_lon, rets

vars == <<f, log, noise_arg, calls, ret, raw, bearing, file, offset, lat_lon, rets>>
filterVars == <<f, log, noise_arg, calls, ret>>
bearingVars == <<raw, bearing>>
readVars == <<file, offset, lat_lon, rets>>

MaxObs == 2
Noises == {0, 1}

\* <<lat, lon, seconds_since_last_timestep>>, in and out of the ranges the
\* spec gives for observe
Observations ==
  { <<40, -75, 1>>, <<41, -74, 2>>, <<-33, 151, 3>>,
    <<91, 0, 1>>, <<0, 181, 1>>, <<40, -75, 0>>, <<40, -75, -1>> }

NoCall ==
  [err |-> "none", changed |-> FALSE,
   prior |-> create(4, 1), predicted |-> create(4, 1)]

FilterInit ==
  \E noise \in Noises:
    \E this \in {GPSFilter(noise)}:
       /\ f = this.f
       /\ log = this.log
       /\ noise_arg = noise
       /\ calls = << >>
       /\ ret = NoCall

FilterIdle ==
  /\ f = alloc_filter(4, 2)
  /\ log = << >>
  /\ noise_arg = 0
  /\ calls = << >>
  /\ ret = NoCall

BearingIdle == raw = RatZero /\ bearing = << >>

ReadIdle == file = << >> /\ offset = 0 /\ lat_lon = << >> /\ rets = << >>

Init == FilterInit /\ BearingIdle /\ ReadIdle

\* One call of update_velocity2d on the object.
observe(lat, lon, seconds_since_last) ==
  /\ Len(calls) < MaxObs
  /\ \E r \in {update_velocity2d([f |-> f, log |-> log], RatOfInt(lat),
                                  RatOfInt(lon), RatOfInt(seconds_since_last))}:
        /\ f' = r.f
        /\ log' = r.log
        /\ ret' = [err |-> r.err, changed |-> r.f # f,
                   prior |-> r.prior, predicted |-> r.predicted]
  /\ calls' = Append(calls, <<lat, lon, seconds_since_last>>)
  /\ UNCHANGED <<noise_arg, bearingVars, readVars>>

Next == \E o \in Observations: observe(o[1], o[2], o[3])

Spec == Init /\ [][Next]_vars

(***************************************************************************)
(* Properties of the filter                                                *)
(***************************************************************************)
LastCall == calls[Len(calls)]
Idx == 0..3
TenTo12 == [n |-> [s |-> 1, m |-> <<0, 0, 0, 0, 1>>], d |-> <<1>>]
Millionth == [n |-> [s |-> 1, m |-> <<1>>], d |-> <<0, 0, 1>>]

\* the range the spec gives for the arguments of observe
OutOfRange(c) ==
  c[3] <= 0 \/ c[1] < -90 \/ c[1] > 90 \/ c[2] < -180 \/ c[2] > 180

\* C1: a call of observe with seconds_since_last <= 0, or lat outside
\* [-90, 90], or lon outside [-180, 180], fails with InvalidInputError and
\* leaves the filter as it was before the call.
C1_OutOfRangeIsRejected ==
  (calls # << >> /\ OutOfRange(LastCall)) =>
    (ret.err = "InvalidInputError" /\ ~ret.changed)

\* The innovation covariance of this filter is never singular: no call ends
\* in SingularMatrixError, whatever the noise.
InnovationCovarianceRegular == ret.err # "SingularMatrixError"

\* C3: every observe(lat, lon, dt) runs, in this order and once each,
\* set_seconds_per_timestep(dt), the assignment of the observation
\* [lat * 1000, lon * 1000], a predict and a correction; so n calls make n
\* predicts and n corrections, alternating, the i-th predict with the
\* transition coupling 0.001 * dt of the i-th call and the i-th correction
\* with the observation of the i-th call.
C3_ObserveRunsStepsInOrder ==
  /\ Len(log) = 1 + 4 * Len(calls)
  /\ \A i \in 1..Len(calls):
       LET c == calls[i]
           b == 4 * (i - 1) + 1
           z == <<RatOfInt(1000 * c[1]), RatOfInt(1000 * c[2])>>
       IN /\ log[b + 1].op = "set_seconds_per_timestep"
          /\ log[b + 1].arg = <<RatOfInt(c[3])>>
          /\ log[b + 2].op = "set_matrix"
          /\ log[b + 2].arg = z
          /\ log[b + 3].op = "predict"
          /\ log[b + 3].arg = <<RatOfInts(c[3], 1000), RatOfInts(c[3], 1000)>>
          /\ log[b + 4].op = "correct"
          /\ log[b + 4].arg = z

\* two calls with different time steps have been made
C3_Witness ==
  /\ Len(calls) = 2
  /\ calls[1][3] = 1
  /\ calls[2][3] = 2
  /\ log[8].op = "predict"
  /\ log[9].op = "correct"

\* C4: in every reachable state state_transition is the 4 x 4 identity plus
\* the entries [0][2] and [1][3], which are equal and are 0.001 times the
\* seconds of the latest set_seconds_per_timestep (1 from the constructor
\* if no call was made): set_seconds_per_timestep writes those two entries
\* and no other.
C4_TransitionIsIdentityPlusCoupling ==
  LET seconds == IF calls = << >> THEN 1 ELSE LastCall[3]
  IN \A i \in Idx, j \in Idx:
       At(f.state_transition, i, j) =
         IF i = j THEN RatOfInt(1)
         ELSE IF <<i, j>> \in {<<0, 2>>, <<1, 3>>} THEN RatOfInts(seconds, 1000)
         ELSE RatZero

\* a call with a time step of 3 seconds has set both couplings to 0.003
C4_Witness ==
  /\ calls # << >>
  /\ LastCall[3] = 3
  /\ At(f.state_transition, 0, 2) = RatOfInts(3, 1000)
  /\ At(f.state_transition, 1, 3) = RatOfInts(3, 1000)

RECURSIVE Det(_, _, _)
\* determinant of the rows rs and columns cs (index sequences) of the integer
\* matrix D, expanded along the first row
Det(D, rs, cs) ==
  IF rs = << >> THEN IntOfInt(1)
  ELSE IntSum(Tup([k \in 1..Len(cs) |->
         IF D[rs[1]][cs[k]].s = 0 THEN IntZero
         ELSE LET t == IntMul(D[rs[1]][cs[k]],
                              Det(D, Tail(rs),
                                  SubSeq(cs, 1, k - 1) \o
                                    SubSeq(cs, k + 1, Len(cs))))
              IN IF k % 2 = 1 THEN t ELSE IntNeg(t)]))

Symmetric(M) ==
  \A i \in 1..Rows(M), j \in 1..Cols(M): M.data[i][j] = M.data[j][i]

\* every principal minor is >= 0 (the common denominator is positive)
PositiveSemiDefinite(M) ==
  \A S \in (SUBSET (1..Rows(M))) \ {{}}:
    LET idx == SelectSeq(Tup([i \in 1..Rows(M) |-> i]), LAMBDA i: i \in S)
    IN Det(M.data, idx, idx).s >= 0

C7_ModelAndNoiseKeepConstruction ==
  /\ \A i \in 0..1, j \in Idx:
       At(f.observation_model, i, j) = IF i = j THEN RatOfInt(1) ELSE RatZero
  /\ \A i \in Idx, j \in Idx:
       At(f.process_noise_covariance, i, j) =
         IF i # j THEN RatZero ELSE IF i < 2 THEN Millionth ELSE RatOfInt(1)
  /\ \A i \in 0..1, j \in 0..1:
       At(f.observation_noise_covariance, i, j) =
         IF i = j THEN RatOfInts(noise_arg, 1000000) ELSE RatZero

\* two calls have been made on a filter with a nonzero observation noise
C7_Witness ==
  /\ Len(calls) = 2
  /\ noise_arg = 1
  /\ ret.changed
  /\ At(f.observation_noise_covariance, 1, 1) = Millionth

\* C8: before any call of observe, state_estimate is zero, get_lat_long and
\* get_velocity give (0, 0), estimate_covariance is 10^12 times the identity,
\* observation_noise_covariance is diag(0.000001 * noise) and
\* process_noise_covariance is diag(0.000001, 0.000001, 1, 1).
C8_ConstructedValues ==
  calls = << >> =>
    /\ \A i \in Idx: At(f.state_estimate, i, 0) = RatZero
    /\ get_lat_long(f) = <<RatZero, RatZero>>
    /\ get_velocity(f) = <<RatZero, RatZero>>
    /\ \A i \in Idx, j \in Idx:
         /\ At(f.estimate_covariance, i, j) = IF i = j THEN TenTo12 ELSE RatZero
         /\ At(f.process_noise_covariance, i, j) =
              IF i # j THEN RatZero ELSE IF i < 2 THEN Millionth ELSE RatOfInt(1)
    /\ \A i \in 0..1, j \in 0..1:
         At(f.observation_noise_covariance, i, j) =
           IF i = j THEN RatOfInts(noise_arg, 1000000) ELSE RatZero

\* a filter just constructed with noise 1
C8_Witness ==
  /\ calls = << >>
  /\ noise_arg = 1
  /\ Len(log) = 1
  /\ At(f.estimate_covariance, 3, 3) = TenTo12

\* C10: the predict of a call with time step dt moves get_lat_long by dt
\* times get_velocity in each axis and leaves get_velocity as it was.
C10_PredictMovesPositionByVelocity ==
  calls # << >> =>
    LET x0 == [state_estimate |-> ret.prior]
        x1 == [state_estimate |-> ret.predicted]
        dt == RatOfInt(LastCall[3])
    IN \A a \in 1..2:
         /\ RatSub(get_lat_long(x1)[a], get_lat_long(x0)[a]) =
              RatMul(dt, get_velocity(x0)[a])
         /\ get_velocity(x1)[a] = get_velocity(x0)[a]

\* a predict over 3 seconds from a state that has a velocity in both axes
C10_Witness ==
  /\ Len(calls) = 2
  /\ LastCall[3] = 3
  /\ RatSgn(get_velocity([state_estimate |-> ret.prior])[1]) # 0
  /\ RatSgn(get_velocity([state_estimate |-> ret.prior])[2]) # 0
  /\ get_lat_long([state_estimate |-> ret.predicted]) #
       get_lat_long([state_estimate |-> ret.prior])

(***************************************************************************)
(* get_bearing: the normalisation of the bearing, on doubles.               *)
(***************************************************************************)
\* a - b and a + b on doubles
double_sub(a, b) == RoundToDouble(RatSub(a, b))
double_add(a, b) == RoundToDouble(RatAdd(a, b))

RECURSIVE while_at_least_360(_)
\* while (bearing >= 360.0) bearing -= 360.0;
while_at_least_360(b) ==
  IF RatLeq(RatOfInt(360), b)
  THEN while_at_least_360(double_sub(b, RatOfInt(360)))
  ELSE b

RECURSIVE while_negative(_)
\* while (bearing < 0.0) bearing += 360.0;
while_negative(b) ==
  IF RatSgn(b) < 0 THEN while_negative(double_add(b, RatOfInt(360))) ELSE b

\* get_bearing from the value of bearing / to_radians on
get_bearing(degrees) == while_negative(while_at_least_360(degrees))

\* 2^-k and -(2^-k)
TwoToMinus(k) == [n |-> IntOfInt(1), d |-> Pow2(k)]

\* Values of atan2(y, x) / to_radians: doubles from -180.0000002 to
\* 180.0000002 (PI is 3.14159265, a little under pi), among them values next
\* to zero.
RawBearings ==
  {RatOfInt(5 * k) : k \in -36..36}
    \cup {RatAdd(RatOfInt(180), TwoToMinus(23)),
          RatNeg(RatAdd(RatOfInt(180), TwoToMinus(23)))}
    \cup {TwoToMinus(k) : k \in {1, 20, 46, 60}}
    \cup {RatNeg(TwoToMinus(k)) : k \in {1, 20, 44, 45, 46, 60}}

BearingInit == raw \in RawBearings /\ bearing = << >>

InitBearing == FilterIdle /\ BearingInit /\ ReadIdle

\* One call of get_bearing, in a state whose raw bearing is raw.
bearing_degrees ==
  /\ bearing = << >>
  /\ bearing' = <<get_bearing(raw)>>
  /\ UNCHANGED <<raw, filterVars, readVars>>

NextBearing == bearing_degrees

SpecBearing == InitBearing /\ [][NextBearing]_vars

\* b = a + 360 * k for an integer k
SameModulo360(a, b) ==
  LET t == RatDiv(RatSub(b, a), RatOfInt(360)) IN t.d = NatOne

\* C5: get_bearing returns a value b with 0 <= b < 360 that is the raw
\* bearing modulo 360.
C5_BearingInRange ==
  bearing # << >> =>
    /\ RatSgn(bearing[1]) >= 0
    /\ RatLess(bearing[1], RatOfInt(360))
    /\ SameModulo360(raw, bearing[1])

(***************************************************************************)
(* read_lat_long.  The stream is a sequence of characters: a digit, the    *)
(* comma, the line terminator, a blank and a character no number holds.    *)
(* A number is a run of digits; offset is the position of the next         *)
(* character to read, Len(file) + 1 at the end of input.                   *)
(***************************************************************************)
Chars == {"7", ",", "\n", " ", "x"}
MaxLen == 4
MaxCalls == 3

Files == UNION {[1..n -> Chars] : n \in 0..MaxLen}

RECURSIVE skip_space(_, _)
\* the white space a %lf directive skips, line terminators included
skip_space(s, o) ==
  IF o <= Len(s) /\ s[o] \in {" ", "\n"} THEN skip_space(s, o + 1) ELSE o

RECURSIVE scan_digits(_, _, _, _)
\* the digits from o on: [ok, val, off]
scan_digits(s, o, val, ok) ==
  IF o <= Len(s) /\ s[o] = "7"
  THEN scan_digits(s, o + 1, 10 * val + 7, TRUE)
  ELSE [ok |-> ok, val |-> val, off |-> o]

\* fscanf(file, "%lf,%lf", lat, lon) with the doubles at ll: the count n it
\* returns (-1 for EOF), the doubles afterwards and the new offset
fscanf(s, o, ll) ==
  LET a == skip_space(s, o)
      n1 == scan_digits(s, a, 0, FALSE)
      b == skip_space(s, n1.off + 1)
      n2 == scan_digits(s, b, 0, FALSE)
  IN IF ~n1.ok
     THEN [n |-> IF a > Len(s) THEN -1 ELSE 0, ll |-> ll, off |-> a]
     ELSE IF n1.off > Len(s) \/ s[n1.off] # ","
     THEN [n |-> 1, ll |-> <<n1.val, ll[2]>>, off |-> n1.off]
     ELSE IF ~n2.ok
     THEN [n |-> 1, ll |-> <<n1.val, ll[2]>>, off |-> b]
     ELSE [n |-> 2, ll |-> <<n1.val, n2.val>>, off |-> n2.off]

RECURSIVE next_line(_, _)
\* while ((ch = getc(file)) != '\n') if (EOF == ch) return 0;
next_line(s, o) ==
  IF o > Len(s) THEN [eof |-> TRUE, off |-> o]
  ELSE IF s[o] = "\n" THEN [eof |-> FALSE, off |-> o + 1]
  ELSE next_line(s, o + 1)

RECURSIVE read_lat_long(_, _, _)
\* read_lat_long(file, lat, lon): the value returned, the doubles and the
\* offset it leaves
read_lat_long(s, o, ll) ==
  LET r == fscanf(s, o, ll)
      l == next_line(s, r.off)
  IN IF r.n = 2 THEN [ret |-> 1, ll |-> r.ll, off |-> r.off]
     ELSE IF l.eof THEN [ret |-> 0, ll |-> r.ll, off |-> l.off]
     ELSE read_lat_long(s, l.off, r.ll)

InitRead ==
  /\ FilterIdle
  /\ BearingIdle
  /\ file \in Files
  /\ offset = 1
  /\ lat_lon = <<0, 0>>
  /\ rets = << >>

\* One call of read_lat_long on the stream.
read ==
  /\ Len(rets) < MaxCalls
  /\ \E r \in {read_lat_long(file, offset, lat_lon)}:
        /\ offset' = r.off
        /\ lat_lon' = r.ll
        /\ rets' = Append(rets, [ret |-> r.ret, ll |-> r.ll])
  /\ UNCHANGED <<file, filterVars, bearingVars>>

NextRead == read

SpecRead == InitRead /\ [][NextRead]_vars

RECURSIVE Lines(_, _)
\* the lines of the stream from o on, without their terminators
Lines(s, o) ==
  IF o > Len(s) THEN << >>
  ELSE LET l == next_line(s, o)
       IN <<SubSeq(s, o, IF l.eof THEN Len(s) ELSE l.off - 2)>> \o Lines(s, l.off)

\* a line that holds a "lat,lon" pair, and the pair
WellFormed(line) == fscanf(line, 1, <<0, 0>>).n = 2
PairOf(line) == fscanf(line, 1, <<0, 0>>).ll

RECURSIVE Pairs(_)
\* the pairs the calls returned, in order
Pairs(rs) ==
  IF rs = << >> THEN << >>
  ELSE (IF Head(rs).ret = 1 THEN <<Head(rs).ll>> ELSE << >>) \o Pairs(Tail(rs))

RECURSIVE LinePairs(_)
\* one pair for each well-formed line, none for a malformed one
LinePairs(ls) ==
  IF ls = << >> THEN << >>
  ELSE (IF WellFormed(Head(ls)) THEN <<PairOf(Head(ls))>> ELSE << >>)
         \o LinePairs(Tail(ls))

\* C9: read over the whole stream, each well-formed line yields its pair and
\* a malformed line yields none: once 0 is returned, the pairs returned are
\* those of the well-formed lines, in order; and 0 is returned only at the
\* end of input.
C9_OnePairPerWellFormedLine ==
  (rets # << >> /\ rets[Len(rets)].ret = 0) =>
    /\ Pairs(rets) = LinePairs(Lines(file, 1))
    /\ offset = Len(file) + 1

====
